---- MODULE Spec2Model ----
(***************************************************************************)
(* Model of gdsfactory/routing/astar_routing.py: grid rasterisation        *)
(* (_generate_grid), 4-connected neighbour generation                     *)
(* (_generate_neighbours) and the A* driver (astar_routing).              *)
(*                                                                         *)
(* Number representation.  Every length is an integer count of 1/1000     *)
(* layout unit ("milli-units"), the granularity np.round(.,3) leaves on   *)
(* the axes.  Inputs are multiples of 500 (0.5 unit) and resolutions are  *)
(* powers of two, so the float sums, products and quotients of the source *)
(* are exact and the integer arithmetic below computes the same values.   *)
(* linspace values are the rationals num/den, compared by cross           *)
(* multiplication and rounded half-to-even as np.round does.              *)
(* g is kept in milli-units, h in milli-units squared, and f = g + h is   *)
(* kept in units of 1e-6 layout unit: f = Milli*g + h.                     *)
(***************************************************************************)
EXTENDS Integers, Sequences, FiniteSets, TLC

VARIABLES
    pc,           \* position of the invocation of astar_routing
    c,            \* Component: [bbox, references]
    input_port,   \* Port: [x, y, orientation]
    output_port,  \* Port: [x, y, orientation]
    resolution,   \* grid step
    grid, x, y,   \* result of _generate_grid
    nodes,        \* every Node object created so far, by identity (index)
    start_node,   \* identity of the start node (0 before it exists)
    end_node,     \* the end Node (never placed in a list)
    open_list,    \* list of node identities
    closed,       \* list of node identities
    points,       \* waypoints handed to get_route_from_waypoints
    warned,       \* warn(...) was called
    result        \* what astar_routing returned or raised

vars == <<pc, c, input_port, output_port, resolution, grid, x, y, nodes,
          start_node, end_node, open_list, closed, points, warned, result>>

----------------------------------------------------------------------------
(* Bounds of the model *)

\* cap on the number of expansions (pops) of the while loop
MaxSteps == 24

\* side of the square component bounding box, in layout units (WideBox is
\* two units wider and one unit higher)
BoxSide == 4

----------------------------------------------------------------------------
(* Arithmetic helpers *)

\* 1 layout unit in milli-units: the 3 decimals kept by np.ndarray.round(., 3)
Milli == 1000

Abs(a) == IF a < 0 THEN -a ELSE a

\* round-half-to-even of the rational num/den (den > 0) to an integer
RoundHalfEven(num, den) ==
    LET q == num \div den
        r == num % den
    IN  IF 2 * r < den THEN q
        ELSE IF 2 * r > den THEN q + 1
        ELSE IF q % 2 = 0 THEN q ELSE q + 1

\* Python round(v) of a coordinate v (milli-units), as milli-units
round(v) == Milli * RoundHalfEven(v, Milli)

\* ndarray.min() / ndarray.max() of an axis (a function on 0..n-1)
AxisMin(a) == CHOOSE v \in {a[i] : i \in DOMAIN a} : \A i \in DOMAIN a : v <= a[i]
AxisMax(a) == CHOOSE v \in {a[i] : i \in DOMAIN a} : \A i \in DOMAIN a : v >= a[i]

----------------------------------------------------------------------------
(* _generate_grid *)

\* int((stop - start) / resolution): the number of samples given to linspace
NumSamples(start, stop, res) == (stop - start) \div res

\* np.linspace(start, stop, num, endpoint=True)[i] as the rational
\* LinspaceNum / LinspaceDen (num = 1 yields the single sample start)
LinspaceDen(num) == IF num = 1 THEN 1 ELSE num - 1
LinspaceNum(start, stop, num, i) ==
    IF num = 1 THEN start ELSE start * (num - 1) + i * (stop - start)

\* the axis as returned: np.ndarray.round(axis, 3)
Axis(start, stop, num) ==
    [i \in 0..(num - 1) |->
        RoundHalfEven(LinspaceNum(start, stop, num, i), LinspaceDen(num))]

\* np.abs(axis - v).argmin() on the unrounded axis: first index of least distance
Dist(start, stop, num, i, v) ==
    Abs(LinspaceNum(start, stop, num, i) - v * LinspaceDen(num))
ArgminAbs(start, stop, num, v) ==
    CHOOSE i \in 0..(num - 1) :
        /\ \A j \in 0..(num - 1) : Dist(start, stop, num, i, v) <= Dist(start, stop, num, j, v)
        /\ \A j \in 0..(i - 1) : Dist(start, stop, num, j, v) > Dist(start, stop, num, i, v)

\* the index ranges  xmin:xmax, ymin:ymax  assigned 1 for one reference
RefCells(comp, res, ref) ==
    LET b  == comp.bbox
        nx == NumSamples(b[1][1], b[2][1], res)
        ny == NumSamples(b[1][2], b[2][2], res)
        xmin == ArgminAbs(b[1][1], b[2][1], nx, ref[1][1])
        xmax == ArgminAbs(b[1][1], b[2][1], nx, ref[2][1])
        ymin == ArgminAbs(b[1][2], b[2][2], ny, ref[1][2])
        ymax == ArgminAbs(b[1][2], b[2][2], ny, ref[2][2])
    IN  {<<i, j>> \in (0..(nx - 1)) \X (0..(ny - 1)) :
            /\ xmin <= i /\ i < xmax
            /\ ymin <= j /\ j < ymax}

\* grid, x, y = _generate_grid(c, resolution); bbox is <<<<x0, y0>>, <<x1, y1>>>>
_generate_grid(comp, res) ==
    LET b  == comp.bbox
        nx == NumSamples(b[1][1], b[2][1], res)
        ny == NumSamples(b[1][2], b[2][2], res)
        occupied == UNION {RefCells(comp, res, comp.references[k]) :
                              k \in DOMAIN comp.references}
    IN  [grid |-> [i \in 0..(nx - 1) |-> [j \in 0..(ny - 1) |->
                     IF <<i, j>> \in occupied THEN 1 ELSE 0]],
         x |-> Axis(b[1][1], b[2][1], nx),
         y |-> Axis(b[1][2], b[2][2], ny)]

----------------------------------------------------------------------------
(* _generate_neighbours *)

\* atol=1 of np.isclose, in milli-units
atol == 1000

\* 1 / rtol for the default rtol=1e-05 of np.isclose
InvRtol == 100000

\* np.isclose(a, b, atol=1):  |a - b| <= atol + rtol * |b|
isclose(a, b) == InvRtol * Abs(a - b) <= InvRtol * atol + Abs(b)

\* next(i for i, _ in enumerate(axis) if np.isclose(_, v, atol=1));
\* -1 stands for StopIteration
FirstClose(axis, v) ==
    LET hits == {i \in DOMAIN axis : isclose(axis[i], v)}
    IN  IF hits = {} THEN -1
        ELSE CHOOSE i \in hits : \A j \in hits : i <= j

\* a move table whose last move is diagonal
new_positions_diagonal(res) == << <<0, -res>>, <<0, res>>, <<-res, 0>>, <<res, res>> >>

\* the offsets with the step to the east cut to half a resolution
new_positions_half_east(res) ==
    << <<0, -res>>, <<0, res>>, <<-res, 0>>, <<res \div 2, 0>> >>

\* the four moves, in generation order
new_positions(res) == << <<0, -res>>, <<0, res>>, <<-res, 0>>, <<res, 0>> >>

node_position(pos, d) == <<pos[1] + d[1], pos[2] + d[2]>>

OutOfRange(p, ax, ay) ==
    \/ p[1] > AxisMax(ax)
    \/ p[1] < AxisMin(ax)
    \/ p[2] > AxisMax(ay)
    \/ p[2] < AxisMin(ay)

\* the occupancy lookup raises StopIteration for position p
LookupRaises(p, ax, ay) == FirstClose(ax, p[1]) = -1 \/ FirstClose(ay, p[2]) = -1

Occupied(p, g, ax, ay) == g[FirstClose(ax, p[1])][FirstClose(ay, p[2])] = 1

\* a candidate position is kept
Accepted(p, g, ax, ay) ==
    /\ ~OutOfRange(p, ax, ay)
    /\ ~LookupRaises(p, ax, ay)
    /\ ~Occupied(p, g, ax, ay)

\* the positions of the Nodes returned by _generate_neighbours, in order
_generate_neighbours(pos, g, ax, ay, res) ==
    LET cand == [k \in 1..4 |-> node_position(pos, new_positions(res)[k])]
    IN  SelectSeq(cand, LAMBDA p : Accepted(p, g, ax, ay))

\* _generate_neighbours raises (StopIteration leaves the generator expression)
NeighboursRaise(pos, ax, ay, res) ==
    \E k \in 1..4 :
        LET p == node_position(pos, new_positions(res)[k])
        IN  ~OutOfRange(p, ax, ay) /\ LookupRaises(p, ax, ay)

----------------------------------------------------------------------------
(* class Node *)

\* the parent of a root node (Python None); identities start at 1
NoParent == 0

\* Node(parent, position): g = h = 0, f = g + h
Node(parent, position) ==
    [parent |-> parent, position |-> position, g |-> 0, h |-> 0, f |-> 0]

----------------------------------------------------------------------------
(* astar_routing *)

\* the keys of the orientation tables
OrientationKeys == {"0", "90", "180", "270", "None"}

\* input_orientation / output_orientation: the step of a port orientation
orientation_step(o, res) ==
    CASE o = "0"    -> <<res, 0>>
      [] o = "90"   -> <<0, res>>
      [] o = "180"  -> <<-res, 0>>
      [] o = "270"  -> <<0, -res>>
      [] o = "None" -> <<0, 0>>

\* position of start_node / end_node for a port
anchor(port, res) ==
    <<round(port.x + orientation_step(port.orientation, res)[1]),
      round(port.y + orientation_step(port.orientation, res)[2])>>

center(port) == <<port.x, port.y>>

\* the last index of least f in open_list (the scan comparing with <=)
current_index_last(ol, ns) ==
    CHOOSE i \in DOMAIN ol :
        /\ \A j \in DOMAIN ol : ns[ol[i]].f <= ns[ol[j]].f
        /\ \A j \in (i + 1)..Len(ol) : ns[ol[j]].f > ns[ol[i]].f

\* current_index: the first index of least f in open_list
current_index(ol, ns) ==
    CHOOSE i \in DOMAIN ol :
        /\ \A j \in DOMAIN ol : ns[ol[i]].f <= ns[ol[j]].f
        /\ \A j \in 1..(i - 1) : ns[ol[j]].f > ns[ol[i]].f

\* open_list.pop(index)
pop(ol, i) == SubSeq(ol, 1, i - 1) \o SubSeq(ol, i + 1, Len(ol))

\* lines 132-134: the `continue` belongs to the for loop over closed, so the
\* scan never leaves the body of the neighbour loop (and neighbour, a Node
\* just created, equals no Node of closed: Node defines no __eq__)
ClosedScanSkips(neighbour, cl) == FALSE

\* lines 144-146: the `continue` belongs to the for loop over open_list
OpenScanSkips(neighbour, g, ol, ns) == FALSE

\* the squared distance of lines 138-140
heuristic(p, q) == (p[1] - q[1]) * (p[1] - q[1]) + (p[2] - q[2]) * (p[2] - q[2])

\* f = g + h with g in milli-units and h in milli-units squared
total(g, h) == Milli * g + h

\* a neighbour Node whose f is left as the constructor set it
Scored_stale_f(parent, position, g, goal) ==
    [parent |-> parent, position |-> position, g |-> g,
     h |-> heuristic(position, goal), f |-> 0]

\* a neighbour Node linked to the node created last instead of to the
\* node being expanded
Scored_parent_latest(parent, position, g, goal) ==
    [parent |-> Len(nodes), position |-> position, g |-> g,
     h |-> heuristic(position, goal),
     f |-> total(g, heuristic(position, goal))]

\* a neighbour Node with its g, h, f assigned (lines 137-141)
Scored(parent, position, g, goal) ==
    [parent |-> parent, position |-> position, g |-> g,
     h |-> heuristic(position, goal),
     f |-> total(g, heuristic(position, goal))]

RECURSIVE TraceBack(_, _)
\* lines 107-109: positions from a node back to the root
TraceBack(ns, id) ==
    IF id = NoParent THEN <<>>
    ELSE <<ns[id].position>> \o TraceBack(ns, ns[id].parent)

\* the traced positions left in goal-to-root order
NotReversed(s) == s

\* points[::-1]
Reverse(s) == [i \in 1..Len(s) |-> s[Len(s) + 1 - i]]

\* lines 103-115: the waypoint list
Waypoints(ns, id, inp, outp) ==
    <<center(inp)>> \o Reverse(TraceBack(ns, id)) \o <<center(outp)>>

----------------------------------------------------------------------------
(* Inputs of one invocation *)

Side == BoxSide * Milli

\* resolutions: powers of two, so that every float operation is exact
Resolutions == {500, 1000, 2000}

\* the component bounding box
BBox == << <<0, 0>>, <<Side, Side>> >>

\* bounding boxes of the references: a block at the input port's edge and
\* walls between the two ports
XRanges == { <<0, 1000>>, <<1000, 2000>>, <<1500, 2500>>, <<2000, 3000>> }
YRanges == { <<0, Side>>, <<0, Side - 1000>>, <<1000, Side>> }
Rects == { << <<xr[1], yr[1]>>, <<xr[2], yr[2]>> >> : xr \in XRanges, yr \in YRanges }

\* a wider, non-square bounding box (two units wider, one unit higher)
WideBox == << <<0, 0>>, <<Side + 2000, Side + 1000>> >>

Components ==
    [bbox : {BBox}, references : {<<>>} \cup {<<r>> : r \in Rects}]
        \cup {[bbox |-> WideBox, references |-> <<>>]}

\* orientations a caller may pass; "45" is not a key of the tables
Orientations == OrientationKeys \cup {"45"}

InputPorts  == [x : {0, 500}, y : {2000}, orientation : Orientations]
OutputPorts == [x : {Side}, y : {2000, 1500}, orientation : Orientations]

\* the nearest sample to v is unique, so that the float argmin is the exact one
UniqueNearest(start, stop, num, v) ==
    \A j \in 0..(num - 1) :
        j # ArgminAbs(start, stop, num, v) =>
            Dist(start, stop, num, j, v) > Dist(start, stop, num, ArgminAbs(start, stop, num, v), v)

ValidComponent(comp, res) ==
    LET b  == comp.bbox
        nx == NumSamples(b[1][1], b[2][1], res)
        ny == NumSamples(b[1][2], b[2][2], res)
    IN  /\ nx >= 1 /\ ny >= 1
        /\ \A k \in DOMAIN comp.references : \A corner \in 1..2 :
              /\ UniqueNearest(b[1][1], b[2][1], nx, comp.references[k][corner][1])
              /\ UniqueNearest(b[1][2], b[2][2], ny, comp.references[k][corner][2])

----------------------------------------------------------------------------
(* The invocation as a state machine *)

\* the state at the call of astar_routing, the arguments drawn from the sets
InitFrom(resolutions, components, input_ports, output_ports) ==
    /\ pc = "entry"
    /\ resolution \in resolutions
    /\ c \in {comp \in components : ValidComponent(comp, resolution)}
    /\ input_port \in input_ports
    /\ output_port \in output_ports
    /\ grid = <<>> /\ x = <<>> /\ y = <<>>
    /\ nodes = <<>>
    /\ start_node = NoParent
    /\ end_node = Node(NoParent, <<0, 0>>)
    /\ open_list = <<>>
    /\ closed = <<>>
    /\ points = <<>>
    /\ warned = FALSE
    /\ result = "none"

Init == InitFrom(Resolutions, Components, InputPorts, OutputPorts)

\* line 45: grid, x, y = _generate_grid(c, resolution)
GenerateGrid ==
    /\ pc = "entry"
    /\ grid' = _generate_grid(c, resolution).grid
    /\ x' = _generate_grid(c, resolution).x
    /\ y' = _generate_grid(c, resolution).y
    /\ pc' = "tables"
    /\ UNCHANGED <<c, input_port, output_port, resolution, nodes, start_node,
                   end_node, open_list, closed, points, warned, result>>

\* lines 48-62: a port orientation that is no key of the table raises KeyError
OrientationError ==
    /\ pc = "tables"
    /\ \/ input_port.orientation \notin OrientationKeys
       \/ output_port.orientation \notin OrientationKeys
    /\ pc' = "raised"
    /\ result' = "KeyError"
    /\ UNCHANGED <<c, input_port, output_port, resolution, grid, x, y, nodes,
                   start_node, end_node, open_list, closed, points, warned>>

\* lines 48-85: the start and end nodes, open_list = [start_node], closed = []
Anchor ==
    /\ pc = "tables"
    /\ input_port.orientation \in OrientationKeys
    /\ output_port.orientation \in OrientationKeys
    /\ nodes' = <<Node(NoParent, anchor(input_port, resolution))>>
    /\ start_node' = 1
    /\ end_node' = Node(NoParent, anchor(output_port, resolution))
    /\ open_list' = <<1>>
    /\ closed' = <<>>
    /\ pc' = "search"
    /\ UNCHANGED <<c, input_port, output_port, resolution, grid, x, y, points,
                   warned, result>>

\* lines 89-95: the node the loop body works on
current_node == open_list[current_index(open_list, nodes)]

AtGoal(id) == nodes[id].position = end_node.position

\* lines 87-118: the popped node is at the end position
Success ==
    /\ pc = "search"
    /\ open_list # <<>>
    /\ AtGoal(current_node)
    /\ closed' = Append(closed, current_node)
    /\ open_list' = pop(open_list, current_index(open_list, nodes))
    /\ points' = Waypoints(nodes, current_node, input_port, output_port)
    /\ result' = "waypoints"
    /\ pc' = "returned"
    /\ UNCHANGED <<c, input_port, output_port, resolution, grid, x, y, nodes,
                   start_node, end_node, warned>>

\* lines 87-127: the occupancy lookup of _generate_neighbours raises
NeighbourError ==
    /\ pc = "search"
    /\ open_list # <<>>
    /\ ~AtGoal(current_node)
    /\ NeighboursRaise(nodes[current_node].position, x, y, resolution)
    /\ closed' = Append(closed, current_node)
    /\ open_list' = pop(open_list, current_index(open_list, nodes))
    /\ result' = "StopIteration"
    /\ pc' = "raised"
    /\ UNCHANGED <<c, input_port, output_port, resolution, grid, x, y, nodes,
                   start_node, end_node, points, warned>>

\* lines 87-149: one iteration of the while loop that expands the popped node
Expand ==
    /\ pc = "search"
    /\ open_list # <<>>
    /\ Len(closed) < MaxSteps
    /\ ~AtGoal(current_node)
    /\ ~NeighboursRaise(nodes[current_node].position, x, y, resolution)
    /\ LET cur  == current_node
           rest == pop(open_list, current_index(open_list, nodes))
           cl   == Append(closed, cur)
           nb   == _generate_neighbours(nodes[cur].position, grid, x, y, resolution)
           g    == nodes[cur].g + resolution
           \* the neighbours that reach line 149
           kept == SelectSeq([k \in 1..Len(nb) |-> k],
                             LAMBDA k : /\ ~ClosedScanSkips(nb[k], cl)
                                        /\ ~OpenScanSkips(nb[k], g, rest, nodes))
       IN  /\ closed' = cl
           /\ nodes' = nodes \o [k \in 1..Len(kept) |->
                                   Scored(cur, nb[kept[k]], g, end_node.position)]
           /\ open_list' = rest \o [k \in 1..Len(kept) |-> Len(nodes) + k]
    /\ UNCHANGED <<pc, c, input_port, output_port, resolution, grid, x, y,
                   start_node, end_node, points, warned, result>>

\* lines 151-152: open_list is empty
Fallback ==
    /\ pc = "search"
    /\ open_list = <<>>
    /\ warned' = TRUE
    /\ result' = "manhattan"
    /\ pc' = "returned"
    /\ UNCHANGED <<c, input_port, output_port, resolution, grid, x, y, nodes,
                   start_node, end_node, open_list, closed, points>>

Next ==
    \/ GenerateGrid
    \/ OrientationError
    \/ Anchor
    \/ Success
    \/ NeighbourError
    \/ Expand
    \/ Fallback

Spec == Init /\ [][Next]_vars

\* The invocations followed to their end: the interpreter keeps running the
\* loop, so a step that can be taken is taken.  Arguments: an empty component
\* or one with a block at the input port's edge, ports on the box edges.
FairResolutions == {1000, 2000}
FairComponents ==
    [bbox : {BBox},
     references : {<<>>, << << <<0, 1000>>, <<1000, Side - 1000>> >> >>}]
FairInputPorts  == [x : {0}, y : {2000}, orientation : {"0", "180", "45"}]
FairOutputPorts == [x : {Side}, y : {2000}, orientation : {"180", "0", "None"}]

FairInit == InitFrom(FairResolutions, FairComponents, FairInputPorts, FairOutputPorts)

FairSpec == FairInit /\ [][Next]_vars /\ WF_vars(Next)

----------------------------------------------------------------------------
(* Properties of the search loop *)

Pos(id) == nodes[id].position

\* C1: during the search loop no grid coordinate is both in the closed list
\* and in the open list, and no grid coordinate is moved to closed more than
\* once.
C1_ClosedNeverReopened ==
    pc = "search" =>
        /\ \A i \in DOMAIN closed : \A j \in DOMAIN open_list :
              Pos(closed[i]) # Pos(open_list[j])
        /\ \A i, j \in DOMAIN closed : i # j => Pos(closed[i]) # Pos(closed[j])

\* C2: the open list holds at most one node per grid coordinate.
C2_OpenListOnePerCoordinate ==
    pc = "search" =>
        \A i, j \in DOMAIN open_list :
            i # j => Pos(open_list[i]) # Pos(open_list[j])

\* the positions one accepted move away from p (none where the lookup raises)
Moves(p) ==
    IF NeighboursRaise(p, x, y, resolution) THEN {}
    ELSE LET nb == _generate_neighbours(p, grid, x, y, resolution)
         IN  {nb[k] : k \in DOMAIN nb}

RECURSIVE Closure(_, _)
\* the positions reachable by accepted moves: seen so far, and the frontier
\* whose moves are still to be followed
Closure(seen, frontier) ==
    IF frontier = {} THEN seen
    ELSE LET new == (UNION {Moves(p) : p \in frontier}) \ seen
         IN  Closure(seen \cup new, new)

\* the positions the search can ever create a node for
Reachable == Closure({Pos(start_node)}, {Pos(start_node)})

GoalReachable == end_node.position \in Reachable

\* some reachable position makes the occupancy lookup raise
RaiseReachable == \E p \in Reachable : NeighboursRaise(p, x, y, resolution)

\* a node of the open list whose parent stands on an accepted position: its
\* expansion appends a node of the same kind at the parent's position
Sustained ==
    \E j \in DOMAIN open_list :
        /\ nodes[open_list[j]].parent # NoParent
        /\ Accepted(Pos(nodes[open_list[j]].parent), grid, x, y)

\* a search the model stops at MaxSteps that the code can never end: the goal
\* and every raising lookup are out of reach, and the open list refills
NeverEnds ==
    (pc = "search" /\ Len(closed) = MaxSteps /\ ~GoalReachable /\ ~RaiseReachable)
        => Sustained

\* while the search goes on, an open list that refills keeps refilling: the
\* expansion of a node whose parent stands on an accepted position appends a
\* node at that position, whose own parent was accepted when it was generated
SustainedStays ==
    [][(pc = "search" /\ Sustained) => (pc' # "search" \/ Sustained')]_vars

\* the invocation has ended
Ended == pc \in {"returned", "raised"}

\* the model stops following a search at MaxSteps expansions; the search is
\* truncated when the code would go on and can still end, by popping the goal
\* or by a raising lookup
Truncated ==
    /\ pc = "search"
    /\ Len(closed) = MaxSteps
    /\ (GoalReachable \/ RaiseReachable)

\* C3: every invocation eventually ends; the search loop never runs forever.
\* (A search the model truncates is not counted against the claim.)
C3_Terminates == <>(Ended \/ Truncated)

\* C4: whenever the goal coordinate cannot be reached from the start
\* coordinate through free grid cells, the open list eventually becomes
\* empty and astar_routing warns and returns the route_manhattan result.
C4_UnreachableFallsBack ==
    (pc = "search" /\ closed = <<>> /\ ~GoalReachable /\ ~RaiseReachable)
        ~> (pc = "returned" /\ result = "manhattan" /\ warned)

----------------------------------------------------------------------------
(* Properties of the returned waypoints *)

\* astar_routing returned the route built from waypoints
Succeeded == pc = "returned" /\ result = "waypoints"

\* p and q are one resolution step apart along exactly one axis
OneStep(p, q) ==
    \/ Abs(p[1] - q[1]) = resolution /\ p[2] = q[2]
    \/ p[1] = q[1] /\ Abs(p[2] - q[2]) = resolution

StrictlyInside(p, r) ==
    /\ r[1][1] < p[1] /\ p[1] < r[2][1]
    /\ r[1][2] < p[2] /\ p[2] < r[2][2]

\* C6: no waypoint of a returned path lies inside an obstacle rectangle.
C6_PathObstacleFree ==
    Succeeded =>
        \A k \in DOMAIN points : \A n \in DOMAIN c.references :
            ~StrictlyInside(points[k], c.references[n])

\* the axis position v lies within [lo, hi]
Within(v, lo, hi) == lo <= v /\ v <= hi

\* C7: every grid cell whose axis coordinates lie within an obstacle
\* rectangle is marked occupied.
C7_RasterConservative ==
    pc # "entry" =>
        \A n \in DOMAIN c.references : \A i \in DOMAIN x : \A j \in DOMAIN y :
            (/\ Within(x[i], c.references[n][1][1], c.references[n][2][1])
             /\ Within(y[j], c.references[n][1][2], c.references[n][2][2]))
                => grid[i][j] = 1

\* the start and end nodes exist
Anchored == pc \in {"search", "returned"} \/ (pc = "raised" /\ result = "StopIteration")

\* C8: the start and end nodes stand exactly one resolution step from the
\* port center in the direction of the port orientation (at the center for
\* orientation None).
C8_AnchorsExact ==
    Anchored =>
        /\ Pos(start_node) =
              node_position(center(input_port),
                            orientation_step(input_port.orientation, resolution))
        /\ end_node.position =
              node_position(center(output_port),
                            orientation_step(output_port.orientation, resolution))

\* C9: when a port orientation is not a key of the tables, astar_routing
\* fails without _generate_grid having run.
C9_FailsBeforeGrid ==
    (pc = "raised" /\ result = "KeyError") => (grid = <<>> /\ x = <<>> /\ y = <<>>)

RECURSIVE Ancestor(_, _)
\* the node d parent links above the node id
Ancestor(id, d) == IF d = 0 THEN id ELSE Ancestor(nodes[id].parent, d - 1)

\* the node popped last
Popped == closed[Len(closed)]

\* C10: the waypoints are the input-port center, then the parent chain of the
\* popped goal node from the start node down to the goal node, then the
\* output-port center.
C10_WaypointOrder ==
    Succeeded =>
        LET n == Len(points) - 2
        IN  /\ n >= 1
            /\ points[1] = center(input_port)
            /\ points[Len(points)] = center(output_port)
            /\ Ancestor(Popped, n - 1) = start_node
            /\ nodes[start_node].parent = NoParent
            /\ points[2] = Pos(start_node)
            /\ points[n + 1] = end_node.position
            /\ \A d \in 0..(n - 1) : points[n + 1 - d] = Pos(Ancestor(Popped, d))

\* a returned path of at least three nodes whose ends differ from the port
\* centers
C10_Witness ==
    /\ Succeeded
    /\ Len(points) >= 5
    /\ points[1] # points[2]
    /\ points[Len(points)] # points[Len(points) - 1]

----------------------------------------------------------------------------
(* The straight case and the finer resolutions *)

\* no obstacle, the input port facing +x and the output port facing -x on
\* one horizontal line, the input port to the left
StraightCase ==
    /\ c.references = <<>>
    /\ input_port.orientation = "0"
    /\ output_port.orientation = "180"
    /\ input_port.y = output_port.y
    /\ input_port.x < output_port.x

\* C11: in the straight case astar_routing succeeds and the waypoints run
\* from the input-port center to the output-port center on the ports' y,
\* x growing by one resolution step from each waypoint to the next.
C11_StraightPath ==
    (StraightCase /\ Ended) =>
        /\ Succeeded
        /\ points[1] = center(input_port)
        /\ points[Len(points)] = center(output_port)
        /\ \A k \in 1..(Len(points) - 1) :
              /\ points[k + 1][2] = points[k][2]
              /\ points[k + 1][1] = points[k][1] + resolution

\* the positions one accepted move away from p on the grid (g, ax, ay)
MovesIn(p, g, ax, ay, res) ==
    IF NeighboursRaise(p, ax, ay, res) THEN {}
    ELSE LET nb == _generate_neighbours(p, g, ax, ay, res)
         IN  {nb[k] : k \in DOMAIN nb}

RECURSIVE ClosureIn(_, _, _, _, _, _)
\* the positions reachable by accepted moves on the grid (g, ax, ay)
ClosureIn(seen, frontier, g, ax, ay, res) ==
    IF frontier = {} THEN seen
    ELSE LET new == (UNION {MovesIn(p, g, ax, ay, res) : p \in frontier}) \ seen
         IN  ClosureIn(seen \cup new, new, g, ax, ay, res)

\* with resolution res, the end node's position can be reached from the start
\* node's: no invocation succeeds otherwise, every node but the start node
\* being generated by an accepted move from an expanded node
FeasibleAt(res) ==
    LET G == _generate_grid(c, res)
        s == anchor(input_port, res)
    IN  anchor(output_port, res) \in ClosureIn({s}, {s}, G.grid, G.x, G.y, res)

\* the finer resolutions that evenly divide res
Finer(res) == {q \in Resolutions : q < res /\ res % q = 0 /\ ValidComponent(c, q)}

\* C12: when astar_routing finds a path at a resolution, a path exists at
\* every finer resolution that evenly divides it.
C12_MonotonicFeasibility ==
    Succeeded => \A q \in Finer(resolution) : FeasibleAt(q)

----------------------------------------------------------------------------
(* Selection order *)

\* the claimed order of discovery within one expansion: south, north, west,
\* east of the node at position p; 0 for any other position
Compass(p, q) ==
    CASE q = <<p[1], p[2] - resolution>> -> 1
      [] q = <<p[1], p[2] + resolution>> -> 2
      [] q = <<p[1] - resolution, p[2]>> -> 3
      [] q = <<p[1] + resolution, p[2]>> -> 4
      [] OTHER -> 0

\* C13: the node popped has the lowest f of the open list, and among the
\* nodes of that f it is the one discovered first; the nodes discovered by
\* one expansion are created and queued in the order south, north, west, east.
C13_PopsLowestFEarliest ==
    [][(pc = "search" /\ Len(closed') = Len(closed) + 1) =>
        LET p   == closed'[Len(closed')]
            new == (Len(nodes) + 1)..Len(nodes')
        IN  /\ \E j \in DOMAIN open_list : open_list[j] = p
            /\ \A j \in DOMAIN open_list :
                  /\ nodes[p].f <= nodes[open_list[j]].f
                  /\ nodes[open_list[j]].f = nodes[p].f => p <= open_list[j]
            /\ \A a \in new :
                  /\ nodes'[a].parent = p
                  /\ Compass(nodes[p].position, nodes'[a].position) # 0
            /\ \A a, b \in new :
                  a < b => Compass(nodes[p].position, nodes'[a].position)
                              < Compass(nodes[p].position, nodes'[b].position)
            /\ \A j \in 1..(Len(open_list') - 1) : open_list'[j] < open_list'[j + 1]
      ]_vars

\* the node popped last had the same f as an older entry of the open list
\* that was discovered after it, and its expansion discovered several nodes
C13_Witness ==
    /\ pc = "search"
    /\ closed # <<>>
    /\ \E j \in DOMAIN open_list :
          /\ nodes[open_list[j]].parent # Popped
          /\ nodes[open_list[j]].f = nodes[Popped].f
          /\ open_list[j] > Popped
    /\ Cardinality({j \in DOMAIN open_list : nodes[open_list[j]].parent = Popped}) >= 2

----------------------------------------------------------------------------
(* The occupancy lookup *)

\* the indices of the axis values nearest to v
Nearest(axis, v) ==
    {i \in DOMAIN axis : \A j \in DOMAIN axis : Abs(axis[i] - v) <= Abs(axis[j] - v)}

\* the candidate positions of the node at p, in generation order
Candidates(p) == [k \in 1..4 |-> node_position(p, new_positions(resolution)[k])]

\* the positions _generate_neighbours returned for the node at p
Returned(p) ==
    LET nb == _generate_neighbours(p, grid, x, y, resolution)
    IN  {nb[k] : k \in DOMAIN nb}

\* C14: for the node just expanded, a candidate position is returned if and
\* only if it is inside the axis range and the grid cell nearest to it is
\* free, and the cell the lookup consults is the nearest one.
C14_NearestCellDecides ==
    (pc = "search" /\ closed # <<>>) =>
        \A k \in 1..4 :
            LET q == Candidates(Pos(Popped))[k]
            IN  /\ q \in Returned(Pos(Popped)) <=>
                      /\ ~OutOfRange(q, x, y)
                      /\ \E i \in Nearest(x, q[1]) : \E j \in Nearest(y, q[2]) :
                            grid[i][j] = 0
                /\ ~OutOfRange(q, x, y) =>
                      /\ FirstClose(x, q[1]) \in Nearest(x, q[1])
                      /\ FirstClose(y, q[2]) \in Nearest(y, q[2])

----------------------------------------------------------------------------
(* Costs and the lattice of positions *)

RECURSIVE Depth(_)
\* the number of parent links from the node id back to the root
Depth(id) == IF nodes[id].parent = NoParent THEN 0 ELSE 1 + Depth(nodes[id].parent)

RECURSIVE Root(_)
\* the node the parent links of the node id end at
Root(id) == IF nodes[id].parent = NoParent THEN id ELSE Root(nodes[id].parent)

\* the nodes of the open list and of the closed list
Listed == {open_list[j] : j \in DOMAIN open_list} \cup {closed[j] : j \in DOMAIN closed}

\* C15: every node of the open or closed list has g equal to resolution times
\* the number of parent links from it back to the start node, and f = g + h.
C15_CostsFresh ==
    \A id \in Listed :
        /\ Root(id) = start_node
        /\ nodes[id].g = resolution * Depth(id)
        /\ nodes[id].f = Milli * nodes[id].g + nodes[id].h

\* a node three links below the start node is listed, off the goal
C15_Witness ==
    \E id \in Listed : Depth(id) >= 3 /\ nodes[id].h > 0 /\ nodes[id].f > nodes[id].h

----------------------------------------------------------------------------
(* The axes of the grid *)

\* an axis is strictly increasing from lo to hi in steps of one resolution
Subdivides(axis, lo, hi) ==
    LET n == Cardinality(DOMAIN axis)
    IN  /\ DOMAIN axis = 0..(n - 1)
        /\ n >= 1
        /\ axis[0] = lo
        /\ axis[n - 1] = hi
        /\ \A i \in 1..(n - 1) :
              /\ axis[i - 1] < axis[i]
              /\ axis[i] - axis[i - 1] = resolution

\* C16: the axes returned by _generate_grid are strictly increasing, start at
\* the bounding box minimum, end at its maximum, adjacent positions are one
\* resolution apart, and the grid has shape (len(x), len(y)).
C16_AxesSubdivideBBox ==
    pc # "entry" =>
        /\ Subdivides(x, c.bbox[1][1], c.bbox[2][1])
        /\ Subdivides(y, c.bbox[1][2], c.bbox[2][2])
        /\ DOMAIN grid = DOMAIN x
        /\ \A i \in DOMAIN grid : DOMAIN grid[i] = DOMAIN y

----------------------------------------------------------------------------
(* Completeness of the search *)

\* the candidate positions around p that _generate_neighbours accepts
AcceptedSteps(p) ==
    {q \in {node_position(p, new_positions(resolution)[k]) : k \in 1..4} :
        Accepted(q, grid, x, y)}

RECURSIVE AcceptedClosure(_, _)
\* the positions joined to the seen ones by one-resolution orthogonal steps
\* through accepted positions
AcceptedClosure(seen, frontier) ==
    IF frontier = {} THEN seen
    ELSE LET new == (UNION {AcceptedSteps(p) : p \in frontier}) \ seen
         IN  AcceptedClosure(seen \cup new, new)

\* the goal coordinate is reachable from the start coordinate through
\* accepted positions
AcceptedPathToGoal ==
    end_node.position \in AcceptedClosure({Pos(start_node)}, {Pos(start_node)})

\* C17: whenever the goal coordinate is reachable from the start coordinate by
\* one-resolution orthogonal steps through accepted positions, the invocation
\* ends in success only: not in the fallback and not in an error.
C17_ReachableGoalSucceeds ==
    (Ended /\ start_node # NoParent /\ AcceptedPathToGoal) => Succeeded

----------------------------------------------------------------------------
(* The returned chain *)

\* C18: on success, the parent chain from the start node to the popped goal
\* node visits no grid coordinate twice.
C18_ChainSimple ==
    Succeeded =>
        LET chain == TraceBack(nodes, Popped)
        IN  \A i, j \in DOMAIN chain : i # j => chain[i] # chain[j]

\* a success with a chain of four nodes or more, after some coordinate was
\* expanded twice
C18_Witness ==
    /\ Succeeded
    /\ Len(TraceBack(nodes, Popped)) >= 4
    /\ \E i, j \in DOMAIN closed : i # j /\ Pos(closed[i]) = Pos(closed[j])

----------------------------------------------------------------------------
(* The lattice of node positions *)

\* p and q differ by an integer multiple of resolution on each axis
OnLattice(p, q) ==
    /\ (p[1] - q[1]) % resolution = 0
    /\ (p[2] - q[2]) % resolution = 0

\* C19: every node position of the open or closed list differs from the start
\* node's position by an integer multiple of resolution on each axis; an
\* invocation succeeds only if the end node's position does so as well.
C19_PositionsOnLattice ==
    /\ \A id \in Listed : OnLattice(Pos(id), Pos(start_node))
    /\ Succeeded => OnLattice(end_node.position, Pos(start_node))

\* a success whose end position differs from the start position on both axes
C19_Witness ==
    /\ Succeeded
    /\ end_node.position[1] # Pos(start_node)[1]
    /\ end_node.position[2] # Pos(start_node)[2]
    /\ Pos(Popped) = end_node.position

----------------------------------------------------------------------------
(* Unhandled errors *)

\* C20: the occupancy lookup of _generate_neighbours never fails: the
\* invocation never ends with an unhandled StopIteration, and every candidate
\* position around the node about to be expanded that passes the axis-range
\* check has an x-axis index and a y-axis index within the lookup tolerance.
C20_LookupNeverFails ==
    /\ result # "StopIteration"
    /\ (pc = "search" /\ open_list # <<>> /\ ~AtGoal(current_node)) =>
          \A k \in 1..4 :
              ~OutOfRange(Candidates(Pos(current_node))[k], x, y) =>
                  ~LookupRaises(Candidates(Pos(current_node))[k], x, y)

====
